---- MODULE Spec2Model ----
(***************************************************************************)
(* Model of the consensus calculator of web-conscalc.                      *)
(*                                                                         *)
(* calculateConsensus(C, D) exists in two revisions: src/src/App.js        *)
(* (variance unbounded above) and src/unnamed/part_000 (variance capped at *)
(* 4).  Both are modelled; the variable rev says which one runs.           *)
(*                                                                         *)
(* JavaScript values are modelled as records [k, n, d]:                    *)
(*   k = "fin"   the finite number n/d, in lowest terms, d > 0             *)
(*   k = "inf"   +Infinity (n = 1) or -Infinity (n = -1)                   *)
(*   k = "nan"   NaN                                                       *)
(*   k = "str"   a value that is not of type number (a string)             *)
(*   k = "null"  null                                                      *)
(* Finite doubles are modelled as exact rationals: rounding is abstracted, *)
(* and -0 is modelled as 0.                                                *)
(*                                                                         *)
(* The pages that use the function are modelled as well: the gauge and the *)
(* calculator page, and the research and contact pages with the timers     *)
(* they start.  A text is the sequence of its characters.                  *)
(***************************************************************************)
EXTENDS Integers, Sequences, FiniteSets, TLC

VARIABLES
    rev,        \* the revision of calculateConsensus that runs
    mean,       \* the argument C of the current call
    variance,   \* the argument D of the current call
    result,     \* the Result the current call returned
    taken,      \* the branches of the J and K chains the current call took
    pc,         \* "call": the call has not run; "done": it has returned
    prev,       \* the caller's record of its previous call and its Result
    cargs,      \* concurrent callers: the arguments of each caller's call
    cpc,        \* concurrent callers: the statement each caller is at
    frame,      \* concurrent callers: the bindings C, D, E .. L of each call
    cret,       \* concurrent callers: the Result each call returned
    overlapped, \* concurrent callers: two calls have been active at once
    gvalue,     \* GaugeChart: the prop value
    percentage, \* GaugeChart: the position of the pointer, in percent
    inputs,     \* CalculatorPage: the state inputs, a record of C and D
    showDetails,\* CalculatorPage: the state showDetails
    results,    \* CalculatorPage: the value the useMemo hook holds
    deps,       \* CalculatorPage: the dependencies that value was computed for
    view,       \* CalculatorPage: what the last render displays
    event,      \* CalculatorPage: the handler that ran last
    activePage, \* AppProvider: the state activePage
    mounts,     \* the number of pages mounted so far: names the mounted page
    activeCitation, \* ResearchPage: the state activeCitation
    copySuccess,\* ResearchPage: the state copySuccess
    status,     \* ContactPage: the state status
    timers,     \* the pending setTimeout callbacks, in the order of their start
    started,    \* the number of copies and submits so far: names the next one
    owner,      \* ResearchPage: the copy that set copySuccess last (0: none)
    cleared     \* ResearchPage: the last timer that cleared copySuccess

concVars == <<cargs, cpc, frame, cret, overlapped>>

gaugeVars == <<gvalue, percentage>>

calcVars == <<inputs, showDetails, results, deps, view, event>>

pageVars ==
    <<activePage, mounts, activeCitation, copySuccess, status, timers,
      started, owner, cleared>>

uiVars == <<gaugeVars, calcVars, pageVars>>

vars == <<rev, mean, variance, result, taken, pc, prev, concVars, uiVars>>

\* no gauge is rendered on its own
NoGauge ==
    /\ gvalue = <<>>
    /\ percentage = <<>>

\* the calculator page is not mounted
NoCalculator ==
    /\ inputs = <<>>
    /\ showDetails = FALSE
    /\ results = <<>>
    /\ deps = <<>>
    /\ view = <<>>
    /\ event = <<>>

\* the application is not running
NoPages ==
    /\ activePage = ""
    /\ mounts = 0
    /\ activeCitation = ""
    /\ copySuccess = ""
    /\ status = ""
    /\ timers = <<>>
    /\ started = 0
    /\ owner = 0
    /\ cleared = <<>>

\* no page is mounted: the function is called on its own
NoUI == NoGauge /\ NoCalculator /\ NoPages

(***************************************************************************)
(* Bounds of the input grid.                                               *)
(***************************************************************************)
\* inputs are the multiples of 1/Grid
Grid == 4
\* largest variance of the grid
MaxVariance == 6
\* largest mean of the grid (the scale ends at 5)
MaxMeanInput == 6
\* number of callers that run calculateConsensus at the same time
NumCallers == 2

(***************************************************************************)
(* JavaScript numbers.                                                     *)
(***************************************************************************)
Abs(x) == IF x < 0 THEN -x ELSE x

RECURSIVE GCD(_, _)
GCD(a, b) == IF b = 0 THEN a ELSE GCD(b, a % b)

\* the finite number n/d (d > 0), in lowest terms
Fin(n, d) ==
    LET g == GCD(Abs(n), d)
    IN  [k |-> "fin", n |-> n \div g, d |-> d \div g]

Num(i) == [k |-> "fin", n |-> i, d |-> 1]
PosInf == [k |-> "inf", n |-> 1, d |-> 0]
NegInf == [k |-> "inf", n |-> -1, d |-> 0]
NaN == [k |-> "nan", n |-> 0, d |-> 0]
EmptyString == [k |-> "str", n |-> 0, d |-> 0]
null == [k |-> "null", n |-> 0, d |-> 0]

Inf(s) == IF s < 0 THEN NegInf ELSE PosInf

\* typeof x === 'number'
IsNumber(x) == x.k \in {"fin", "inf", "nan"}

\* isNaN(x), for x of type number
isNaN(x) == x.k = "nan"

\* the sign of a number that is not NaN: -1, 0 or 1
Sign(x) == IF x.n < 0 THEN -1 ELSE IF x.n > 0 THEN 1 ELSE 0

Neg(a) == [a EXCEPT !.n = -a.n]

\* a + b
Add(a, b) ==
    IF a.k = "nan" \/ b.k = "nan" THEN NaN
    ELSE IF a.k = "inf" /\ b.k = "inf" THEN (IF a.n = b.n THEN a ELSE NaN)
    ELSE IF a.k = "inf" THEN a
    ELSE IF b.k = "inf" THEN b
    ELSE LET g == GCD(a.d, b.d)
             l == (a.d \div g) * b.d
         IN  Fin(a.n * (l \div a.d) + b.n * (l \div b.d), l)

\* a - b
Sub(a, b) == Add(a, Neg(b))

\* a * b
Mul(a, b) ==
    IF a.k = "nan" \/ b.k = "nan" THEN NaN
    ELSE IF a.k = "inf" \/ b.k = "inf"
         THEN (IF Sign(a) * Sign(b) = 0 THEN NaN ELSE Inf(Sign(a) * Sign(b)))
    ELSE LET g1 == GCD(Abs(a.n), b.d)
             g2 == GCD(Abs(b.n), a.d)
         IN  Fin((a.n \div g1) * (b.n \div g2), (a.d \div g2) * (b.d \div g1))

\* a / b
Div(a, b) ==
    IF a.k = "nan" \/ b.k = "nan" THEN NaN
    ELSE IF a.k = "inf" /\ b.k = "inf" THEN NaN
    ELSE IF a.k = "inf" THEN Inf(IF Sign(b) < 0 THEN -Sign(a) ELSE Sign(a))
    ELSE IF b.k = "inf" THEN Num(0)
    ELSE IF b.n = 0 THEN (IF a.n = 0 THEN NaN ELSE Inf(Sign(a)))
    ELSE Mul(a, IF b.n < 0 THEN Fin(-b.d, -b.n) ELSE Fin(b.d, b.n))

\* a ** 2, a ** 3 and Math.pow(a, 3)
Pow2(a) == Mul(a, a)
Pow3(a) == Mul(Mul(a, a), a)

\* a < b, for numbers
Lt(a, b) ==
    IF a.k = "nan" \/ b.k = "nan" THEN FALSE
    ELSE IF a.k = "inf" /\ b.k = "inf" THEN a.n < b.n
    ELSE IF a.k = "inf" THEN a.n < 0
    ELSE IF b.k = "inf" THEN b.n > 0
    ELSE a.n * b.d < b.n * a.d

\* a > b
Gt(a, b) == Lt(b, a)

\* a === b, for numbers
StrictEq(a, b) == a.k # "nan" /\ b.k # "nan" /\ a = b

\* Math.max(a, b)
MathMax(a, b) ==
    IF a.k = "nan" \/ b.k = "nan" THEN NaN
    ELSE IF Lt(a, b) THEN b ELSE a

(***************************************************************************)
(* calculateConsensus, step by step.                                       *)
(***************************************************************************)
Revisions == {"App.js", "part_000"}

\* the message of the invalid Result
ErrorMessage(r) ==
    IF r = "App.js"
    THEN "Invalid input. Mean (C) must be 1-5, Variance (D) must be non-negative."
    ELSE "Invalid input. Mean (C) must be 1-5, Variance (D) must be 0-4."

\* Faulty variant of the validation: the test D < 0 is missing.
InvalidInput_NoNegativeCheck(r, C, D) ==
    \/ ~IsNumber(C)
    \/ ~IsNumber(D)
    \/ isNaN(C)
    \/ isNaN(D)
    \/ Lt(C, Num(1))
    \/ Gt(C, Num(5))
    \/ (r = "part_000" /\ Gt(D, Num(4)))

\* Faulty variant of the validation: the ends of the scale are excluded
\* (C <= 1 and C >= 5 instead of C < 1 and C > 5).
InvalidInput_ExclusiveBounds(r, C, D) ==
    \/ ~IsNumber(C)
    \/ ~IsNumber(D)
    \/ isNaN(C)
    \/ isNaN(D)
    \/ ~Gt(C, Num(1))
    \/ ~Lt(C, Num(5))
    \/ Lt(D, Num(0))
    \/ (r = "part_000" /\ Gt(D, Num(4)))

\* Faulty variant of the validation: the cap of the capped revision rejects
\* the variance 4 itself (D >= 4 instead of D > 4).
InvalidInput_CapAtFour(r, C, D) ==
    \/ ~IsNumber(C)
    \/ ~IsNumber(D)
    \/ isNaN(C)
    \/ isNaN(D)
    \/ Lt(C, Num(1))
    \/ Gt(C, Num(5))
    \/ Lt(D, Num(0))
    \/ (r = "part_000" /\ ~Lt(D, Num(4)))

\* the condition of the validation `if`; || short-circuits, so the
\* comparisons are reached only by numbers that are not NaN
InvalidInput(r, C, D) ==
    \/ ~IsNumber(C)
    \/ ~IsNumber(D)
    \/ isNaN(C)
    \/ isNaN(D)
    \/ Lt(C, Num(1))
    \/ Gt(C, Num(5))
    \/ Lt(D, Num(0))
    \/ (r = "part_000" /\ Gt(D, Num(4)))

\* Faulty variant of the invalid Result: the arguments are echoed.
InvalidResult_EchoInputs(r, C, D) ==
    [C |-> C, D |-> D, E |-> null, F |-> null, G |-> null, H |-> null,
     I |-> null, J |-> null, K |-> null, L |-> null,
     error |-> <<ErrorMessage(r)>>]

\* the Result returned when validation fails; error is <<>> for null and
\* <<message>> for a string
InvalidResult(r, C, D) ==
    [C |-> null, D |-> null, E |-> null, F |-> null, G |-> null, H |-> null,
     I |-> null, J |-> null, K |-> null, L |-> null,
     error |-> <<ErrorMessage(r)>>]

\* Faulty variant of E: the reflection is around 2.5 (5 - C).
StepE_WrongPivot(C) == IF Gt(C, Num(3)) THEN Sub(Num(5), C) ELSE C

\* Faulty variant of E: the reflection around 3 is missing.
StepE_NoFold(C) == C

\* const E = C > 3 ? 6 - C : C;
StepE(C) == IF Gt(C, Num(3)) THEN Sub(Num(6), C) ELSE C

\* Faulty variant of F: the division by 2 is missing.
StepF_NoHalving(E) == Sub(E, Num(1))

\* const F = (E - 1) / 2;
StepF(E) == Div(Sub(E, Num(1)), Num(2))

\* Faulty variant of G: the clamp at 0 is missing.
StepG_NoClamp(E) == Sub(E, Num(2))

\* const G = Math.max(0, E - 2);
StepG(E) == MathMax(Num(0), Sub(E, Num(2)))

\* Faulty variant of H: the variance is subtracted.
StepH_MinusD(D, E) ==
    Div(Add(Sub(Sub(Pow2(E), D), Mul(Num(3), E)), Num(2)), Num(2))

\* Faulty variant of H: + 3 * E instead of - 3 * E.
StepH_WrongSign(D, E) ==
    Div(Add(Add(Add(D, Pow2(E)), Mul(Num(3), E)), Num(2)), Num(2))

\* const H = (D + E**2 - 3 * E + 2) / 2;
StepH(D, E) ==
    Div(Add(Sub(Add(D, Pow2(E)), Mul(Num(3), E)), Num(2)), Num(2))

\* Faulty variant of I: the factor 2 is missing.
StepI_NoFactor(F, G) == Sub(Pow3(F), Pow3(G))

\* const I = 2 * F**3 - G**3;
StepI(F, G) == Sub(Mul(Num(2), Pow3(F)), Pow3(G))

\* Faulty variant of the J chain: H <= F instead of H < F.
BranchJ_NonStrict(H, F, I) ==
    IF StrictEq(I, Num(0)) THEN "I=0"
    ELSE IF ~Lt(F, H) THEN "H<F"
    ELSE IF Lt(H, Mul(Num(2), F)) THEN "H<2F"
    ELSE "else"

\* the conditions of the if/else chain that assigns J: the branch taken
BranchJ(H, F, I) ==
    IF StrictEq(I, Num(0)) THEN "I=0"
    ELSE IF Lt(H, F) THEN "H<F"
    ELSE IF Lt(H, Mul(Num(2), F)) THEN "H<2F"
    ELSE "else"

\* Faulty variant of J: the last branch cubes 3F - H instead of H - 3F.
StepJ_CubeReversed(H, F, I) ==
    LET b == BranchJ(H, F, I)
    IN  CASE b = "I=0" -> Num(0)
          [] b = "H<F" -> Div(Pow3(H), Num(3))
          [] b = "H<2F" -> Sub(Div(Pow3(H), Num(3)), Pow3(Sub(H, F)))
          [] b = "else" ->
                Add(Mul(Num(2), Pow3(F)),
                    Div(Pow3(Sub(Mul(Num(3), F), H)), Num(3)))

\* the if/else chain that assigns J
StepJ(H, F, I) ==
    LET b == BranchJ(H, F, I)
    IN  CASE b = "I=0" -> Num(0)
          [] b = "H<F" -> Div(Pow3(H), Num(3))
          [] b = "H<2F" -> Sub(Div(Pow3(H), Num(3)), Pow3(Sub(H, F)))
          [] b = "else" ->
                Add(Mul(Num(2), Pow3(F)),
                    Div(Pow3(Sub(H, Mul(Num(3), F))), Num(3)))

\* Faulty variant of the K chain: H <= 1.5G instead of H < 1.5G.
BranchK_NonStrict(H, G, I) ==
    IF StrictEq(I, Num(0)) THEN "I=0"
    ELSE IF ~Lt(Div(Mul(Num(3), G), Num(2)), H) THEN "H<1.5G"
    ELSE IF Lt(H, Mul(Num(2), G)) THEN "H<2G"
    ELSE "else"

\* the conditions of the if/else chain that assigns K: the branch taken
BranchK(H, G, I) ==
    IF StrictEq(I, Num(0)) THEN "I=0"
    ELSE IF Lt(H, Div(Mul(Num(3), G), Num(2))) THEN "H<1.5G"
    ELSE IF Lt(H, Mul(Num(2), G)) THEN "H<2G"
    ELSE "else"

\* Faulty variant of K: the H < 2G branch cubes the distance |H - 2G|.
StepK_AbsCube(H, G, I) ==
    LET b == BranchK(H, G, I)
    IN  CASE b = "I=0" -> Num(0)
          [] b = "H<1.5G" ->
                Sub(Div(Pow3(H), Num(3)), Mul(Num(2), Pow3(Sub(H, G))))
          [] b = "H<2G" -> Add(Pow3(G), Pow3(Sub(Mul(Num(2), G), H)))
          [] b = "else" -> Pow3(G)

\* the if/else chain that assigns K
StepK(H, G, I) ==
    LET b == BranchK(H, G, I)
    IN  CASE b = "I=0" -> Num(0)
          [] b = "H<1.5G" ->
                Sub(Div(Pow3(H), Num(3)), Mul(Num(2), Pow3(Sub(H, G))))
          [] b = "H<2G" -> Add(Pow3(G), Pow3(Sub(H, Mul(Num(2), G))))
          [] b = "else" -> Pow3(G)

\* Faulty variant of L: the operands of the subtraction are swapped.
StepL_Swapped(I, J, K) ==
    IF ~StrictEq(I, Num(0)) THEN Div(Sub(K, J), I) ELSE Num(0)

\* Faulty variant of L: the division is not guarded by I !== 0.
StepL_Unguarded(I, J, K) == Div(Sub(J, K), I)

\* const L = I !== 0 ? (J - K) / I : 0;
StepL(I, J, K) ==
    IF ~StrictEq(I, Num(0)) THEN Div(Sub(J, K), I) ELSE Num(0)

\* the Result returned when validation passes
ValidResult(C, D) ==
    LET E == StepE(C)
        F == StepF(E)
        G == StepG(E)
        H == StepH(D, E)
        I == StepI(F, G)
        J == StepJ(H, F, I)
        K == StepK(H, G, I)
        L == StepL(I, J, K)
    IN  [C |-> C, D |-> D, E |-> E, F |-> F, G |-> G, H |-> H, I |-> I,
         J |-> J, K |-> K, L |-> L, error |-> <<>>]

calculateConsensus(r, C, D) ==
    IF InvalidInput(r, C, D) THEN InvalidResult(r, C, D) ELSE ValidResult(C, D)

\* the statements calculateConsensus(C, D) runs after the validation: the
\* branches of the two chains, "none" when the validation returned first
BranchesTaken(r, C, D) ==
    IF InvalidInput(r, C, D) THEN [J |-> "none", K |-> "none"]
    ELSE LET E == StepE(C)
             F == StepF(E)
             G == StepG(E)
             H == StepH(D, E)
             I == StepI(F, G)
         IN  [J |-> BranchJ(H, F, I), K |-> BranchK(H, G, I)]

(***************************************************************************)
(* The callers: any number of calls, one after the other, each with        *)
(* arguments of the caller's choice.                                       *)
(***************************************************************************)
\* the multiples of 1/Grid between lo and hi
GridValues(lo, hi) == {Fin(i, Grid) : i \in (lo * Grid)..(hi * Grid)}

\* values that are not finite numbers
NonFinite == {PosInf, NegInf, NaN, EmptyString, null}

MeanInputs ==
    GridValues(0, MaxMeanInput) \cup {Fin(99, 100), Fin(501, 100)} \cup NonFinite

VarianceInputs ==
    GridValues(-1, MaxVariance) \cup {Fin(-1, 100)} \cup NonFinite

\* the Result slot of a call that has not returned yet
NoResult ==
    [C |-> null, D |-> null, E |-> null, F |-> null, G |-> null, H |-> null,
     I |-> null, J |-> null, K |-> null, L |-> null, error |-> <<>>]

\* a binding that has not been initialized
undefined == [k |-> "undef", n |-> 0, d |-> 0]

Callers == 1..NumCallers

\* the bindings of a call before its parameters are bound
EmptyFrame ==
    [C |-> undefined, D |-> undefined, E |-> undefined, F |-> undefined,
     G |-> undefined, H |-> undefined, I |-> undefined, J |-> undefined,
     K |-> undefined, L |-> undefined]

\* no concurrent caller runs: one caller calls, one call after the other
NoCallers ==
    /\ cargs = <<>>
    /\ cpc = <<>>
    /\ frame = <<>>
    /\ cret = <<>>
    /\ overlapped = FALSE

\* the caller has made no call before the current one
NoCall == [rev |-> "none", mean |-> null, variance |-> null, result |-> NoResult]

\* the sequential caller makes no call
NoCaller ==
    /\ mean = null
    /\ variance = null
    /\ result = NoResult
    /\ taken = [J |-> "none", K |-> "none"]
    /\ pc = "idle"
    /\ prev = NoCall

Init ==
    /\ rev \in Revisions
    /\ mean \in MeanInputs
    /\ variance \in VarianceInputs
    /\ result = NoResult
    /\ taken = [J |-> "none", K |-> "none"]
    /\ pc = "call"
    /\ prev = NoCall
    /\ NoCallers
    /\ NoUI

\* calculateConsensus(mean, variance) runs and returns
Evaluate ==
    /\ pc = "call"
    /\ result' = calculateConsensus(rev, mean, variance)
    /\ taken' = BranchesTaken(rev, mean, variance)
    /\ pc' = "done"
    /\ UNCHANGED <<rev, mean, variance, prev, concVars, uiVars>>

\* the caller makes its next call
NextCall ==
    /\ pc = "done"
    /\ mean' \in MeanInputs
    /\ variance' \in VarianceInputs
    /\ result' = NoResult
    /\ taken' = [J |-> "none", K |-> "none"]
    /\ pc' = "call"
    /\ UNCHANGED <<rev, prev, concVars, uiVars>>

Next == Evaluate \/ NextCall

Spec == Init /\ [][Next]_vars

(***************************************************************************)
(* Two consecutive calls of a caller that keeps the Result of the first    *)
(* and changes one argument for the second, as the calculator page does    *)
(* after a change of one input field: the variance alone, or the mean      *)
(* alone to its reflection 6 - mean.  The second call may also be the      *)
(* first one repeated against the other revision of calculateConsensus.    *)
(***************************************************************************)
\* the caller keeps the current call and its Result
Keep ==
    prev' = [rev |-> rev, mean |-> mean, variance |-> variance,
             result |-> result]

\* the next call has another variance and the same mean
ChangeVariance ==
    /\ pc = "done"
    /\ prev = NoCall
    /\ Keep
    /\ variance' \in VarianceInputs
    /\ result' = NoResult
    /\ taken' = [J |-> "none", K |-> "none"]
    /\ pc' = "call"
    /\ UNCHANGED <<rev, mean, concVars, uiVars>>

\* the next call has the reflected mean and the same variance
ReflectMean ==
    /\ pc = "done"
    /\ prev = NoCall
    /\ IsNumber(mean)
    /\ Keep
    /\ mean' = Sub(Num(6), mean)
    /\ result' = NoResult
    /\ taken' = [J |-> "none", K |-> "none"]
    /\ pc' = "call"
    /\ UNCHANGED <<rev, variance, concVars, uiVars>>

\* the revision that is not r
OtherRevision(r) == CHOOSE o \in Revisions : o # r

\* the next call has the same arguments and runs the other revision
ChangeRevision ==
    /\ pc = "done"
    /\ prev = NoCall
    /\ Keep
    /\ rev' = OtherRevision(rev)
    /\ result' = NoResult
    /\ taken' = [J |-> "none", K |-> "none"]
    /\ pc' = "call"
    /\ UNCHANGED <<mean, variance, concVars, uiVars>>

NextPair == Evaluate \/ ChangeVariance \/ ReflectMean \/ ChangeRevision

SpecPair == Init /\ [][NextPair]_vars

(***************************************************************************)
(* Callers that run calculateConsensus at the same time.  Each call runs   *)
(* statement by statement and the statements of different calls            *)
(* interleave in any order.  C and D are the parameters of the call and    *)
(* E .. L are declared with const or let inside the function, so each call *)
(* has its own bindings.                                                   *)
(***************************************************************************)
\* the arguments the concurrent callers choose from
ConcArgs ==
    { [mean |-> Num(3), variance |-> Num(1)],
      [mean |-> Fin(5, 2), variance |-> Fin(1, 2)],
      [mean |-> Num(5), variance |-> Fin(3, 2)],
      [mean |-> Fin(7, 4), variance |-> Num(3)],
      [mean |-> Num(0), variance |-> Num(1)],
      [mean |-> Num(3), variance |-> NaN] }

\* Faulty variant of the bindings: C, D, E .. L are variables of the module,
\* shared by all calls.
FrameOf_Shared(c) == 1

\* the bindings the call of caller c reads and writes: its own
FrameOf(c) == c

\* a call of caller c is between its entry and its return
Active(c) == cpc[c] \notin {"call", "done"}

\* caller c runs a statement: note whether another call is active
Note(c) ==
    overlapped' = (overlapped \/ \E o \in Callers \ {c} : Active(o))

\* the sequential caller is not part of this specification
SeqVars == <<rev, mean, variance, result, taken, pc, prev, uiVars>>

CallerVars == <<mean, variance, result, taken, pc, prev>>

InitConc ==
    /\ rev \in Revisions
    /\ NoCaller
    /\ NoUI
    /\ cargs \in [Callers -> ConcArgs]
    /\ cpc = [c \in Callers |-> "call"]
    /\ frame = [c \in Callers |-> EmptyFrame]
    /\ cret = [c \in Callers |-> NoResult]
    /\ overlapped = FALSE

\* caller c moves from statement `from` to statement `to`
Goto(c, from, to) ==
    /\ cpc[c] = from
    /\ cpc' = [cpc EXCEPT ![c] = to]
    /\ Note(c)
    /\ UNCHANGED <<SeqVars, cargs>>

\* caller c assigns value v to the binding x of its call
Assign(c, x, v) ==
    /\ frame' = [frame EXCEPT ![FrameOf(c)][x] = v]
    /\ UNCHANGED cret

\* (C, D) => : the parameters are bound to the arguments
Enter(c) ==
    /\ Goto(c, "call", "validate")
    /\ frame' = [frame EXCEPT ![FrameOf(c)].C = cargs[c].mean,
                              ![FrameOf(c)].D = cargs[c].variance]
    /\ UNCHANGED cret

\* the validation `if` and its return
Validate(c) ==
    LET f == frame[FrameOf(c)]
    IN  IF InvalidInput(rev, f.C, f.D)
        THEN /\ Goto(c, "validate", "done")
             /\ cret' = [cret EXCEPT ![c] = InvalidResult(rev, f.C, f.D)]
             /\ UNCHANGED frame
        ELSE /\ Goto(c, "validate", "E")
             /\ UNCHANGED <<frame, cret>>

AssignE(c) ==
    /\ Goto(c, "E", "F")
    /\ Assign(c, "E", StepE(frame[FrameOf(c)].C))

AssignF(c) ==
    /\ Goto(c, "F", "G")
    /\ Assign(c, "F", StepF(frame[FrameOf(c)].E))

AssignG(c) ==
    /\ Goto(c, "G", "H")
    /\ Assign(c, "G", StepG(frame[FrameOf(c)].E))

AssignH(c) ==
    /\ Goto(c, "H", "I")
    /\ Assign(c, "H", StepH(frame[FrameOf(c)].D, frame[FrameOf(c)].E))

AssignI(c) ==
    /\ Goto(c, "I", "J")
    /\ Assign(c, "I", StepI(frame[FrameOf(c)].F, frame[FrameOf(c)].G))

AssignJ(c) ==
    LET f == frame[FrameOf(c)]
    IN  /\ Goto(c, "J", "K")
        /\ Assign(c, "J", StepJ(f.H, f.F, f.I))

AssignK(c) ==
    LET f == frame[FrameOf(c)]
    IN  /\ Goto(c, "K", "L")
        /\ Assign(c, "K", StepK(f.H, f.G, f.I))

AssignL(c) ==
    LET f == frame[FrameOf(c)]
    IN  /\ Goto(c, "L", "return")
        /\ Assign(c, "L", StepL(f.I, f.J, f.K))

\* return { C, D, E, F, G, H, I, J, K, L, error: null };
Return(c) ==
    LET f == frame[FrameOf(c)]
    IN  /\ Goto(c, "return", "done")
        /\ cret' = [cret EXCEPT ![c] =
                [C |-> f.C, D |-> f.D, E |-> f.E, F |-> f.F, G |-> f.G,
                 H |-> f.H, I |-> f.I, J |-> f.J, K |-> f.K, L |-> f.L,
                 error |-> <<>>]]
        /\ UNCHANGED frame

NextConc ==
    \E c \in Callers :
        \/ Enter(c)
        \/ Validate(c)
        \/ AssignE(c)
        \/ AssignF(c)
        \/ AssignG(c)
        \/ AssignH(c)
        \/ AssignI(c)
        \/ AssignJ(c)
        \/ AssignK(c)
        \/ AssignL(c)
        \/ Return(c)

SpecConc == InitConc /\ [][NextConc]_vars

(***************************************************************************)
(* GaugeChart: the pointer of the gauge.                                   *)
(***************************************************************************)
\* Math.min(a, b), for numbers
MathMin(a, b) ==
    IF a.k = "nan" \/ b.k = "nan" THEN NaN
    ELSE IF Lt(b, a) THEN b ELSE a

\* the value is truthy: a number other than 0 and NaN (the empty string,
\* null and undefined are falsy)
Truthy(v) == (v.k = "fin" /\ v.n # 0) \/ v.k = "inf"

\* Faulty variant of the clamp: the default of a falsy value is missing
\* (value instead of value || 0).
clampedValue_NoDefault(value) == MathMax(Num(0), MathMin(Num(1), value))

\* const clampedValue = Math.max(0, Math.min(1, value || 0))
clampedValue(value) ==
    MathMax(Num(0), MathMin(Num(1), IF Truthy(value) THEN value ELSE Num(0)))

\* const percentage = clampedValue * 100
Percentage(value) == Mul(clampedValue(value), Num(100))

\* the values of L the function returns on the grid
GridIndexes ==
    {calculateConsensus(r, m, v).L :
        r \in Revisions, m \in MeanInputs, v \in VarianceInputs}

\* the values a gauge is given: every L of the grid, the grid around
\* [0, 1], and the values that are not finite numbers
GaugeInputs ==
    GridIndexes \cup GridValues(-1, 2) \cup NonFinite \cup {undefined}

InitGauge ==
    /\ rev \in Revisions
    /\ NoCaller
    /\ NoCallers
    /\ NoCalculator
    /\ NoPages
    /\ gvalue \in GaugeInputs
    /\ percentage = <<>>

\* GaugeChart({ value }) renders
GaugeChart ==
    /\ percentage = <<>>
    /\ percentage' = <<Percentage(gvalue)>>
    /\ UNCHANGED <<rev, CallerVars, concVars, calcVars, pageVars, gvalue>>

\* the parent renders again and passes another value
NewValue ==
    /\ percentage # <<>>
    /\ gvalue' \in GaugeInputs
    /\ percentage' = <<>>
    /\ UNCHANGED <<rev, CallerVars, concVars, calcVars, pageVars>>

NextGauge == GaugeChart \/ NewValue

SpecGauge == InitGauge /\ [][NextGauge]_vars

(***************************************************************************)
(* Texts and the conversions between texts and numbers.                    *)
(***************************************************************************)
DigitChars == <<"0", "1", "2", "3", "4", "5", "6", "7", "8", "9">>

IsDigit(c) == \E i \in 1..10 : DigitChars[i] = c

DigitValue(c) == (CHOOSE i \in 1..10 : DigitChars[i] = c) - 1

RECURSIVE Pow10(_)
Pow10(k) == IF k = 0 THEN 1 ELSE 10 * Pow10(k - 1)

\* the position after the white space that starts at position i of t
RECURSIVE SkipSpace(_, _)
SkipSpace(t, i) ==
    IF i <= Len(t) /\ t[i] = " " THEN SkipSpace(t, i + 1) ELSE i

\* the position after the digits that start at position i of t
RECURSIVE RunEnd(_, _)
RunEnd(t, i) ==
    IF i <= Len(t) /\ IsDigit(t[i]) THEN RunEnd(t, i + 1) ELSE i

\* the number the digits at the positions i .. j - 1 of t denote
RECURSIVE Natural(_, _, _)
Natural(t, i, j) ==
    IF j <= i THEN 0 ELSE 10 * Natural(t, i, j - 1) + DigitValue(t[j - 1])

\* the text w is in t at position i
StartsWith(t, i, w) ==
    /\ i + Len(w) - 1 <= Len(t)
    /\ SubSeq(t, i, i + Len(w) - 1) = w

\* position i of t holds one of the characters cs
CharAt(t, i, cs) == i <= Len(t) /\ t[i] \in cs

\* parseFloat(t): the number of the longest prefix of t, after its leading
\* white space, that is a decimal literal (sign, Infinity or digits with an
\* optional fraction and exponent); NaN when there is none
parseFloat(t) ==
    LET p0 == SkipSpace(t, 1)
        sgn == IF CharAt(t, p0, {"-"}) THEN -1 ELSE 1
        p1 == IF CharAt(t, p0, {"+", "-"}) THEN p0 + 1 ELSE p0
        iEnd == RunEnd(t, p1)
        hasDot == CharAt(t, iEnd, {"."})
        fEnd == IF hasDot THEN RunEnd(t, iEnd + 1) ELSE iEnd
        intDigits == iEnd - p1
        fracDigits == IF hasDot THEN fEnd - (iEnd + 1) ELSE 0
        mEnd == IF fracDigits > 0 \/ (hasDot /\ intDigits > 0)
                THEN fEnd ELSE iEnd
        e1 == IF CharAt(t, mEnd + 1, {"+", "-"}) THEN mEnd + 2 ELSE mEnd + 1
        eEnd == RunEnd(t, e1)
        hasExp == CharAt(t, mEnd, {"e", "E"}) /\ eEnd > e1
        expo == IF hasExp THEN Natural(t, e1, eEnd) ELSE 0
        expNeg == hasExp /\ CharAt(t, mEnd + 1, {"-"})
        mant == Fin(sgn * (Natural(t, p1, iEnd) * Pow10(fracDigits)
                           + Natural(t, iEnd + 1, fEnd)),
                    Pow10(fracDigits))
    IN  IF StartsWith(t, p1, <<"I", "n", "f", "i", "n", "i", "t", "y">>)
        THEN Inf(sgn)
        ELSE IF intDigits = 0 /\ fracDigits = 0 THEN NaN
        ELSE IF expNeg THEN Div(mant, Num(Pow10(expo)))
        ELSE Mul(mant, Num(Pow10(expo)))

\* the decimal digits of the natural number n
RECURSIVE IntText(_)
IntText(n) ==
    IF n < 10 THEN <<DigitChars[n + 1]>>
    ELSE IntText(n \div 10) \o <<DigitChars[(n % 10) + 1]>>

\* the last f decimal digits of the natural number n, zeros included
RECURSIVE FracText(_, _)
FracText(n, f) ==
    IF f = 0 THEN <<>>
    ELSE FracText(n \div 10, f - 1) \o <<DigitChars[(n % 10) + 1]>>

\* f steps of the long division of r by d: the f digits as a number, and
\* the rest
RECURSIVE LongDivision(_, _, _)
LongDivision(r, d, f) ==
    IF f = 0 THEN [digits |-> 0, rest |-> r]
    ELSE LET before == LongDivision(r, d, f - 1)
         IN  [digits |-> 10 * before.digits + ((10 * before.rest) \div d),
              rest |-> (10 * before.rest) % d]

\* x.toFixed(f), for a number x below 10 ** 21 in magnitude: the decimal
\* text of x with f digits after the point, rounded to the nearest, a tie
\* away from zero
toFixed(x, f) ==
    IF x.k = "nan" THEN <<"N", "a", "N">>
    ELSE IF x.k = "inf"
         THEN (IF x.n < 0 THEN <<"-">> ELSE <<>>)
              \o <<"I", "n", "f", "i", "n", "i", "t", "y">>
    ELSE LET a == Abs(x.n)
             frac == LongDivision(a % x.d, x.d, f)
             up == 2 * frac.rest >= x.d
             digits == IF up THEN frac.digits + 1 ELSE frac.digits
             carry == digits = Pow10(f)
         IN  (IF x.n < 0 THEN <<"-">> ELSE <<>>)
             \o IntText((a \div x.d) + (IF carry THEN 1 ELSE 0))
             \o (IF f = 0 THEN <<>>
                 ELSE <<".">> \o FracText(IF carry THEN 0 ELSE digits, f))

(***************************************************************************)
(* CalculatorPage: two input fields, a switch for the details, and the     *)
(* Result of calculateConsensus on the current inputs, held by useMemo.    *)
(***************************************************************************)
\* what an input of type number delivers as e.target.value: the empty
\* text (also for an entry that is not a number) or a decimal literal
TypedTexts ==
    { <<>>, <<"0">>, <<"1">>, <<"2">>, <<"3">>, <<"4">>, <<"5">>, <<"6">>,
      <<"-", "1">>, <<"1", ".", "5">>, <<"2", ".", "5">>, <<"4", ".", "5">>,
      <<"0", ".", "2", "5">>, <<".", "5">>, <<"1", "e", "1">> }

Fields == {"C", "D"}

\* useState({ C: 5, D: 1.5 })
InitialInputs == [C |-> Num(5), D |-> Fin(3, 2)]

\* Faulty variant of the updater: the other field is not copied
\* ({ [name]: parsedValue } instead of { ...prev, [name]: parsedValue }).
SetInput_NoSpread(before, name, parsedValue) ==
    [[C |-> undefined, D |-> undefined] EXCEPT ![name] = parsedValue]

\* the updater prev => ({ ...prev, [name]: parsedValue })
SetInput(before, name, parsedValue) == [before EXCEPT ![name] = parsedValue]

\* the dependencies of the memo: [inputs.C, inputs.D]
Dependencies(inp) == <<inp.C, inp.D>>

\* Faulty variant of the memo: inputs.D is missing from the dependencies.
useMemo_MeanOnly(r, held, heldDeps, inp) ==
    IF heldDeps # <<>> /\ heldDeps[1] = inp.C
    THEN held
    ELSE calculateConsensus(r, inp.C, inp.D)

\* useMemo(() => calculateConsensus(inputs.C, inputs.D), [inputs.C,
\* inputs.D]): the held value while the dependencies are the held ones,
\* a new call otherwise (held dependencies <<>>: the first render)
useMemo(r, held, heldDeps, inp) ==
    IF heldDeps = Dependencies(inp)
    THEN held
    ELSE calculateConsensus(r, inp.C, inp.D)

\* results.error is truthy: a string that is not empty
HasError(res) == res.error # <<>> /\ res.error[1] # ""

\* {results.error && <p>{results.error}</p>}: the messages displayed
ErrorLine(res) == IF HasError(res) THEN res.error ELSE <<>>

\* <GaugeChart value={!results.error ? results.L : 0} />
GaugeProp(res) == IF ~HasError(res) THEN res.L ELSE Num(0)

NoIndex == <<"-", "-", "-">>

\* {!results.error && results.L !== null ? results.L.toFixed(6) : '---'}
IndexText(res) ==
    IF ~HasError(res) /\ res.L # null THEN toFixed(res.L, 6) ELSE NoIndex

\* ResultCard: the label and value.toFixed(4), or N/A
ResultCard(label, value) ==
    [label |-> label,
     text |-> IF value # null /\ value # undefined
              THEN toFixed(value, 4)
              ELSE <<"N", "/", "A">>]

CardLabels == <<"E", "F", "G", "H", "I", "J", "K">>

\* Faulty variant of the detail cards: they show whenever the switch is on.
DetailCards_IgnoreError(show, res) ==
    IF show
    THEN [i \in 1..Len(CardLabels) |->
            ResultCard(CardLabels[i], res[CardLabels[i]])]
    ELSE <<>>

\* {showDetails && !results.error && (the seven cards)}
DetailCards(show, res) ==
    IF show /\ ~HasError(res)
    THEN [i \in 1..Len(CardLabels) |->
            ResultCard(CardLabels[i], res[CardLabels[i]])]
    ELSE <<>>

\* the labels under the bar of the gauge, from left to right
GaugeLabels == <<"High Disagreement", "High Consensus">>

\* what the page displays
Render(show, res) ==
    [error |-> ErrorLine(res),
     gauge |-> [value |-> GaugeProp(res),
                percentage |-> Percentage(GaugeProp(res)),
                labels |-> GaugeLabels],
     index |-> IndexText(res),
     cards |-> DetailCards(show, res)]

\* the component renders with the state inp, show: the memo, then the output
RenderPage(inp, show) ==
    /\ results' = useMemo(rev, results, deps, inp)
    /\ deps' = Dependencies(inp)
    /\ view' = Render(show, results')

\* the page is mounted and renders for the first time
InitCalc ==
    /\ rev \in Revisions
    /\ NoCaller
    /\ NoCallers
    /\ NoGauge
    /\ NoPages
    /\ inputs = InitialInputs
    /\ showDetails = FALSE
    /\ results = calculateConsensus(rev, InitialInputs.C, InitialInputs.D)
    /\ deps = Dependencies(InitialInputs)
    /\ view = Render(FALSE, results)
    /\ event = [handler |-> "mount", name |-> ""]

\* handleInputChange(e) with e.target = { name, value }, and the render
\* that follows
handleInputChange(name, value) ==
    LET parsedValue == IF value = <<>> THEN EmptyString ELSE parseFloat(value)
    IN  /\ inputs' = SetInput(inputs, name, parsedValue)
        /\ RenderPage(inputs', showDetails)
        /\ event' = [handler |-> "handleInputChange", name |-> name]
        /\ UNCHANGED <<rev, CallerVars, concVars, gaugeVars, pageVars, showDetails>>

\* onClick={() => setShowDetails(!showDetails)}, and the render that follows
ToggleDetails ==
    /\ showDetails' = ~showDetails
    /\ RenderPage(inputs, showDetails')
    /\ event' = [handler |-> "setShowDetails", name |-> ""]
    /\ UNCHANGED <<rev, CallerVars, concVars, gaugeVars, pageVars, inputs>>

\* the user leaves the page and comes back: the page is mounted anew
Remount ==
    /\ event.handler # "mount"
    /\ inputs' = InitialInputs
    /\ showDetails' = FALSE
    /\ results' = calculateConsensus(rev, InitialInputs.C, InitialInputs.D)
    /\ deps' = Dependencies(InitialInputs)
    /\ view' = Render(FALSE, results')
    /\ event' = [handler |-> "mount", name |-> ""]
    /\ UNCHANGED <<rev, CallerVars, concVars, gaugeVars, pageVars>>

NextCalc ==
    \/ \E name \in Fields, value \in TypedTexts :
            handleInputChange(name, value)
    \/ ToggleDetails
    \/ Remount

SpecCalc == InitCalc /\ [][NextCalc]_vars

(***************************************************************************)
(* The pages and their timers.  AppContent mounts the page activePage      *)
(* names and unmounts the page it replaces; the state of a page starts     *)
(* anew with every mount.  A callback passed to setTimeout stays pending   *)
(* when its page is unmounted (no page cancels a timer), and when it runs  *)
(* its setState calls reach the page that started it: they change nothing  *)
(* once that page is unmounted.  The calculator page starts no timer and   *)
(* the timer of the hub page reaches the hub page alone: the state of      *)
(* these two pages is left out here.                                       *)
(***************************************************************************)
\* largest number of page changes
MaxMounts == 4
\* largest number of copies and submits
MaxStarted == 3

PageNames == {"landing", "calculator", "research", "hub", "contact"}

Formats == {"APA", "MLA", "BibTeX"}

\* the delays of the timers, in milliseconds
CopyDelay == 2000
SubmitDelay == 1500
ThanksDelay == 5000

\* the state of the page p when it is mounted ("": the page is not mounted)
MountPage(p) ==
    /\ activeCitation' = IF p = "research" THEN "APA" ELSE ""
    /\ copySuccess' = ""
    /\ status' = IF p = "contact" THEN "idle" ELSE ""
    /\ owner' = 0

\* useState('landing'): the application starts on the landing page
InitPages ==
    /\ rev \in Revisions
    /\ NoCaller
    /\ NoCallers
    /\ NoGauge
    /\ NoCalculator
    /\ activePage = "landing"
    /\ mounts = 1
    /\ activeCitation = ""
    /\ copySuccess = ""
    /\ status = ""
    /\ timers = <<>>
    /\ started = 0
    /\ owner = 0
    /\ cleared = [by |-> 0, owner |-> 0]

OtherVars == <<rev, CallerVars, concVars, gaugeVars, calcVars>>

\* navigate(page): the page activePage names is replaced by the page `page`
navigate(page) ==
    /\ page # activePage
    /\ mounts < MaxMounts
    /\ activePage' = page
    /\ mounts' = mounts + 1
    /\ MountPage(page)
    /\ UNCHANGED <<OtherVars, timers, started, cleared>>

\* onClick={() => setActiveCitation(format)}
setActiveCitation(format) ==
    /\ activePage = "research"
    /\ activeCitation' = format
    /\ UNCHANGED <<OtherVars, activePage, mounts, copySuccess, status, timers,
                   started, owner, cleared>>

\* setTimeout(callback, delay), called by the page mounted now
SetTimeout(queue, callback, delay, id) ==
    Append(queue, [callback |-> callback, delay |-> delay, page |-> mounts,
                   id |-> id])

\* copyToClipboard(text), document.execCommand('copy') returning:
\* setCopySuccess(activeCitation) and the timer that clears it
copyToClipboard ==
    /\ activePage = "research"
    /\ started < MaxStarted
    /\ started' = started + 1
    /\ copySuccess' = activeCitation
    /\ owner' = started'
    /\ timers' = SetTimeout(timers, "clearCopy", CopyDelay, started')
    /\ UNCHANGED <<OtherVars, activePage, mounts, activeCitation, status,
                   cleared>>

\* the form is displayed (status is not 'success') and its button is not
\* disabled (status is not 'submitting')
CanSubmit == activePage = "contact" /\ status \notin {"success", "submitting"}

\* handleSubmit(e): setStatus('submitting') and the first timer
handleSubmit ==
    /\ CanSubmit
    /\ started < MaxStarted
    /\ started' = started + 1
    /\ status' = "submitting"
    /\ timers' = SetTimeout(timers, "success", SubmitDelay, started')
    /\ UNCHANGED <<OtherVars, activePage, mounts, activeCitation, copySuccess,
                   owner, cleared>>

\* the timer at position i is due: no timer started before it with a delay
\* that is not longer is still pending
Due(i) ==
    /\ i \in 1..Len(timers)
    /\ \A j \in 1..(i - 1) : timers[j].delay > timers[i].delay

\* the queue without its timer at position i
Without(queue, i) == SubSeq(queue, 1, i - 1) \o SubSeq(queue, i + 1, Len(queue))

\* the page that started the timer t is still the mounted one
Mounted(t) == t.page = mounts

\* () => setCopySuccess('')
ClearCopy(i) ==
    /\ Due(i)
    /\ timers[i].callback = "clearCopy"
    /\ timers' = Without(timers, i)
    /\ IF Mounted(timers[i])
       THEN /\ copySuccess' = ""
            /\ owner' = 0
            /\ cleared' = [by |-> timers[i].id, owner |-> owner]
       ELSE UNCHANGED <<copySuccess, owner, cleared>>
    /\ UNCHANGED <<OtherVars, activePage, mounts, activeCitation, status,
                   started>>

\* () => { setStatus('success'); e.target.reset(); setTimeout(...) }
ShowThanks(i) ==
    /\ Due(i)
    /\ timers[i].callback = "success"
    /\ timers' = Append(Without(timers, i),
                        [callback |-> "idle", delay |-> ThanksDelay,
                         page |-> timers[i].page, id |-> timers[i].id])
    /\ status' = IF Mounted(timers[i]) THEN "success" ELSE status
    /\ UNCHANGED <<OtherVars, activePage, mounts, activeCitation, copySuccess,
                   started, owner, cleared>>

\* () => setStatus('idle')
BackToIdle(i) ==
    /\ Due(i)
    /\ timers[i].callback = "idle"
    /\ timers' = Without(timers, i)
    /\ status' = IF Mounted(timers[i]) THEN "idle" ELSE status
    /\ UNCHANGED <<OtherVars, activePage, mounts, activeCitation, copySuccess,
                   started, owner, cleared>>

\* a pending timer runs
TimerFires ==
    \E i \in 1..Len(timers) : ClearCopy(i) \/ ShowThanks(i) \/ BackToIdle(i)

NextPages ==
    \/ \E page \in PageNames : navigate(page)
    \/ \E format \in Formats : setActiveCitation(format)
    \/ copyToClipboard
    \/ handleSubmit
    \/ \E i \in 1..Len(timers) : ClearCopy(i)
    \/ \E i \in 1..Len(timers) : ShowThanks(i)
    \/ \E i \in 1..Len(timers) : BackToIdle(i)

SpecPages == InitPages /\ [][NextPages]_vars

\* the event loop runs every timer that is due
SpecPagesFair == SpecPages /\ WF_vars(TimerFires)

(***************************************************************************)
(* The contract of evaluate, stated on the arguments themselves, in        *)
(* integers, independently of the operators above.                         *)
(***************************************************************************)
Done == pc = "done"

IsFinite(x) == x.k = "fin"

\* x < i, x > i and x = i for a number x that is not NaN and an integer i
Below(x, i) == (x.k = "fin" /\ x.n < i * x.d) \/ x = NegInf
Above(x, i) == (x.k = "fin" /\ x.n > i * x.d) \/ x = PosInf
AtLeast(x, i) == x.k = "fin" /\ x.n >= i * x.d
AtMost(x, i) == x.k = "fin" /\ x.n <= i * x.d

\* the arguments are finite, 1 <= mean <= 5 and variance >= 0
InRange == AtLeast(mean, 1) /\ AtMost(mean, 5) /\ AtLeast(variance, 0)

\* the arguments are in range, and under the cap of the revision that has one
ValidArgs == InRange /\ (rev = "part_000" => AtMost(variance, 4))

NumericFields == {"C", "D", "E", "F", "G", "H", "I", "J", "K", "L"}

\* the valid Result: ten numbers and no error
IsValid(res) ==
    /\ \A f \in NumericFields : IsNumber(res[f])
    /\ res.error = <<>>

\* the invalid Result: ten nulls and a message
IsInvalid(res) ==
    /\ \A f \in NumericFields : res[f] = null
    /\ Len(res.error) = 1
    /\ res.error[1] # ""

\* C1 (as claimed): for every input that passes validation, L lies in [0, 1].
C1_RangeLaw ==
    (Done /\ ValidArgs) =>
        /\ IsValid(result)
        /\ AtLeast(result.L, 0)
        /\ AtMost(result.L, 1)

\* C2: evaluate returns the invalid Result, every field null, whenever
\* mean < 1, mean > 5 or variance < 0.
C2_OutOfRangeFails ==
    (Done /\ (Below(mean, 1) \/ Above(mean, 5) \/ Below(variance, 0))) =>
        /\ IsInvalid(result)
        /\ taken = [J |-> "none", K |-> "none"]

C2_Witness ==
    /\ Done
    /\ mean = Fin(99, 100)
    /\ variance = Num(0)
    /\ IsInvalid(result)

\* C3 (as claimed): evaluate succeeds for every mean in [1, 5] and every
\* variance >= 0, with no upper bound on the variance.
C3_NoUpperBound == (Done /\ InRange) => IsValid(result)

\* C3 (amended): evaluate succeeds for every mean in [1, 5] and every
\* variance >= 0 in the revision without the cap, and for every variance in
\* [0, 4] in the revision with the cap, which rejects every variance > 4.
C3_SucceedsUnderCap ==
    /\ (Done /\ ValidArgs) => IsValid(result)
    /\ (Done /\ InRange /\ rev = "part_000" /\ Above(variance, 4)) =>
            IsInvalid(result)

C3_Witness ==
    /\ Done
    /\ rev = "App.js"
    /\ mean = Num(5)
    /\ variance = Num(5)
    /\ IsValid(result)

\* C4 (as claimed): evaluate fails whenever mean or variance is not a finite
\* number.
C4_NonFiniteFails ==
    (Done /\ (~IsFinite(mean) \/ ~IsFinite(variance))) => IsInvalid(result)

\* C5: every Result is either valid (ten numbers, no error) or invalid (ten
\* nulls, a non-empty message).
C5_ValidOrInvalid == Done => (IsValid(result) \/ IsInvalid(result))

C5_Witness ==
    /\ Done
    /\ mean = Num(3)
    /\ variance = Fin(-1, 100)
    /\ IsInvalid(result)

(***************************************************************************)
(* The derivation, stated in integers.  For finite arguments                *)
(* mean = cn/cd and variance = dn/dd every intermediate is an integer over *)
(* the common denominator Scale (I over Scale^3, J and K over 3*Scale^3).  *)
(***************************************************************************)
Cube(x) == x * x * x

\* the number num/den, den # 0
Rat(num, den) == IF den < 0 THEN Fin(-num, -den) ELSE Fin(num, den)

Scale == 2 * variance.d * mean.d * mean.d

\* E = eN / mean.d
eN == IF mean.n > 3 * mean.d THEN 6 * mean.d - mean.n ELSE mean.n

\* G = gN / mean.d
gN == IF eN - 2 * mean.d > 0 THEN eN - 2 * mean.d ELSE 0

\* F * Scale, G * Scale and H * Scale
sF == (eN - mean.d) * variance.d * mean.d
sG == gN * 2 * variance.d * mean.d
sH == variance.n * mean.d * mean.d
        + variance.d * (eN * eN - 3 * eN * mean.d + 2 * mean.d * mean.d)

\* I * Scale^3
sI == 2 * Cube(sF) - Cube(sG)

\* the case of J, and J * 3 * Scale^3
caseJ ==
    IF sI = 0 THEN "I=0"
    ELSE IF sH < sF THEN "H<F"
    ELSE IF sH < 2 * sF THEN "H<2F"
    ELSE "else"

sJ ==
    CASE caseJ = "I=0" -> 0
      [] caseJ = "H<F" -> Cube(sH)
      [] caseJ = "H<2F" -> Cube(sH) - 3 * Cube(sH - sF)
      [] caseJ = "else" -> 6 * Cube(sF) + Cube(sH - 3 * sF)

\* the case of K, and K * 3 * Scale^3
caseK ==
    IF sI = 0 THEN "I=0"
    ELSE IF 2 * sH < 3 * sG THEN "H<1.5G"
    ELSE IF sH < 2 * sG THEN "H<2G"
    ELSE "else"

sK ==
    CASE caseK = "I=0" -> 0
      [] caseK = "H<1.5G" -> Cube(sH) - 6 * Cube(sH - sG)
      [] caseK = "H<2G" -> 3 * Cube(sG) + 3 * Cube(sH - 2 * sG)
      [] caseK = "else" -> 3 * Cube(sG)

\* C6: for valid input E = (6 - C if C > 3 else C), F = (E - 1)/2,
\* G = max(0, E - 2), H = (D + E^2 - 3E + 2)/2, I = 2F^3 - G^3, and the
\* Result echoes C and D.
C6_FirstFiveFields ==
    (Done /\ ValidArgs) =>
        /\ result.C = mean
        /\ result.D = variance
        /\ result.E = Rat(eN, mean.d)
        /\ result.F = Rat(eN - mean.d, 2 * mean.d)
        /\ result.G = Rat(gN, mean.d)
        /\ result.H = Rat(sH, Scale)
        /\ result.I = Rat(sI, Cube(Scale))

C6_Witness ==
    /\ Done
    /\ mean = Fin(7, 2)
    /\ variance = Fin(1, 2)
    /\ result.E = Fin(5, 2)
    /\ result.G = Fin(1, 2)
    /\ result.H = Fin(5, 8)

\* C7: for valid input J is 0 if I = 0, else H^3/3 if H < F, else
\* H^3/3 - (H - F)^3 if H < 2F, else 2F^3 + (H - 3F)^3/3; the comparisons
\* are strict: H = F takes the H < 2F case and H = 2F the last one.
C7_PiecewiseJ ==
    (Done /\ ValidArgs) =>
        /\ taken.J = caseJ
        /\ result.J = Rat(sJ, 3 * Cube(Scale))
        /\ (sI # 0 /\ sH = sF) => taken.J = "H<2F"
        /\ (sI # 0 /\ sH = 2 * sF) => taken.J = "else"

C7_Witness ==
    /\ Done
    /\ ValidArgs
    /\ result.I # Num(0)
    /\ result.H = result.F
    /\ taken.J = "H<2F"

\* C8: for valid input K is 0 if I = 0, else H^3/3 - 2(H - G)^3 if
\* H < 1.5G, else G^3 + (H - 2G)^3 if H < 2G, else G^3; the comparisons are
\* strict: H = 1.5G gives the value of the H < 2G formula (by that branch
\* when G > 0; when G = 0 = H, by the last branch, whose value is the same)
\* and H = 2G gives G^3.
C8_PiecewiseK ==
    (Done /\ ValidArgs) =>
        /\ taken.K = caseK
        /\ result.K = Rat(sK, 3 * Cube(Scale))
        /\ (sI # 0 /\ 2 * sH = 3 * sG) =>
                /\ result.K =
                        Rat(3 * Cube(sG) + 3 * Cube(sH - 2 * sG), 3 * Cube(Scale))
                /\ sG > 0 => taken.K = "H<2G"
        /\ (sI # 0 /\ sH = 2 * sG) =>
                (taken.K = "else" /\ result.K = Rat(Cube(gN), Cube(mean.d)))

C8_Witness ==
    /\ Done
    /\ ValidArgs
    /\ result.I # Num(0)
    /\ result.G # Num(0)
    /\ result.H = Mul(Fin(3, 2), result.G)
    /\ taken.K = "H<2G"

\* C9: for valid input L = (J - K)/I when I # 0 and L = 0 when I = 0; the
\* division never has a zero divisor, so L is a finite number and the
\* Result is valid.
C9_GuardedDivision ==
    (Done /\ ValidArgs) =>
        /\ IsValid(result)
        /\ IsFinite(result.L)
        /\ sI # 0 => result.L = Rat(sJ - sK, 3 * sI)
        /\ sI = 0 => result.L = Num(0)

C9_Witness ==
    /\ Done
    /\ ValidArgs
    /\ mean = Num(1)
    /\ variance = Num(2)
    /\ result.I = Num(0)
    /\ result.L = Num(0)

\* C10: for mean 1 or 5 and any valid variance the Result is valid with
\* E = 1 and F = G = I = J = K = L = 0.
C10_DegenerateBoundary ==
    (Done /\ ValidArgs /\ mean \in {Num(1), Num(5)}) =>
        /\ IsValid(result)
        /\ result.E = Num(1)
        /\ \A f \in {"F", "G", "I", "J", "K", "L"} : result[f] = Num(0)

C10_Witness ==
    /\ Done
    /\ mean = Num(5)
    /\ variance = Fin(3, 2)
    /\ result.E = Num(1)
    /\ result.I = Num(0)
    /\ result.L = Num(0)

\* C12: evaluate(3, 1) is valid with E = 3, F = 1, G = 1, H = 1.5, I = 1
\* and, H lying in the band F <= H < 2F, J = 1.
C12_CenterFirstPart ==
    (Done /\ mean = Num(3) /\ variance = Num(1)) =>
        /\ IsValid(result)
        /\ result.E = Num(3)
        /\ result.F = Num(1)
        /\ result.G = Num(1)
        /\ result.H = Fin(3, 2)
        /\ result.I = Num(1)
        /\ taken.J = "H<2F"
        /\ result.J = Num(1)

C12_Witness ==
    /\ Done
    /\ mean = Num(3)
    /\ variance = Num(1)
    /\ result.H = Fin(3, 2)
    /\ result.J = Num(1)

\* C13 (as claimed): evaluate(3, 1) takes the H < 2G branch for K and
\* returns K = 1.125 and L = -0.125.
C13_CenterNegativeIndex ==
    (Done /\ mean = Num(3) /\ variance = Num(1)) =>
        /\ taken.K = "H<2G"
        /\ result.K = Fin(9, 8)
        /\ result.L = Fin(-1, 8)

\* C13 (amended): evaluate(3, 1) takes the H < 2G branch for K and returns
\* K = 1 + (-0.5)^3 = 0.875 and L = (1 - 0.875)/1 = 0.125, inside [0, 1].
C13_CenterSecondPart ==
    (Done /\ mean = Num(3) /\ variance = Num(1)) =>
        /\ IsValid(result)
        /\ taken.K = "H<2G"
        /\ result.K = Fin(7, 8)
        /\ result.L = Fin(1, 8)

C13_Witness ==
    /\ Done
    /\ mean = Num(3)
    /\ variance = Num(1)
    /\ taken.K = "H<2G"
    /\ result.L = Fin(1, 8)

\* the four tie points of a call with I # 0
TieHF == sI # 0 /\ sH = sF
TieH2F == sI # 0 /\ sH = 2 * sF
TieH15G == sI # 0 /\ 2 * sH = 3 * sG
TieH2G == sI # 0 /\ sH = 2 * sG

\* the value over 3 * Scale^3 of each formula of the J and K chains
fJ1 == Cube(sH)
fJ2 == Cube(sH) - 3 * Cube(sH - sF)
fJ3 == 6 * Cube(sF) + Cube(sH - 3 * sF)
fK1 == Cube(sH) - 6 * Cube(sH - sG)
fK2 == 3 * Cube(sG) + 3 * Cube(sH - 2 * sG)
fK3 == 3 * Cube(sG)

\* C16 (as claimed): at each tie point the two formulas adjacent to it give
\* different values, so the value returned depends on the side the tie is
\* assigned to.
C16_TiesBranchSensitive ==
    (Done /\ ValidArgs) =>
        /\ TieHF => (fJ1 # fJ2 /\ result.J # Rat(fJ1, 3 * Cube(Scale)))
        /\ TieH2F => (fJ2 # fJ3 /\ result.J # Rat(fJ2, 3 * Cube(Scale)))
        /\ TieH15G => (fK1 # fK2 /\ result.K # Rat(fK1, 3 * Cube(Scale)))
        /\ TieH2G => (fK2 # fK3 /\ result.K # Rat(fK2, 3 * Cube(Scale)))

\* C16 (amended): at each tie point the value returned equals the value of
\* both formulas adjacent to it, so it does not depend on the side the tie
\* is assigned to.
C16_TiesContinuous ==
    (Done /\ ValidArgs) =>
        /\ TieHF => /\ result.J = Rat(fJ1, 3 * Cube(Scale))
                    /\ result.J = Rat(fJ2, 3 * Cube(Scale))
        /\ TieH2F => /\ result.J = Rat(fJ2, 3 * Cube(Scale))
                     /\ result.J = Rat(fJ3, 3 * Cube(Scale))
        /\ TieH15G => /\ result.K = Rat(fK1, 3 * Cube(Scale))
                      /\ result.K = Rat(fK2, 3 * Cube(Scale))
        /\ TieH2G => /\ result.K = Rat(fK2, 3 * Cube(Scale))
                     /\ result.K = Rat(fK3, 3 * Cube(Scale))

C16_Witness ==
    /\ Done
    /\ ValidArgs
    /\ TieH15G
    /\ sG > 0
    /\ taken.K = "H<2G"
    /\ result.K = Rat(fK1, 3 * Cube(Scale))

\* C17: for valid input 1 <= E <= 3, 0 <= F <= 1, 0 <= G <= 1, G = 0
\* whenever E <= 2, and G <= F.
C17_Bands ==
    (Done /\ ValidArgs) =>
        /\ AtLeast(result.E, 1) /\ AtMost(result.E, 3)
        /\ AtLeast(result.F, 0) /\ AtMost(result.F, 1)
        /\ AtLeast(result.G, 0) /\ AtMost(result.G, 1)
        /\ AtMost(result.E, 2) => result.G = Num(0)
        /\ result.G.n * result.F.d <= result.F.n * result.G.d

C17_Witness ==
    /\ Done
    /\ ValidArgs
    /\ mean = Fin(15, 4)
    /\ result.E = Fin(9, 4)
    /\ result.F = Fin(5, 8)
    /\ result.G = Fin(1, 4)

\* C18: for valid input I >= 0, I = 0 exactly when the mean is 1 or 5, and
\* for every other mean I > 0 and L = (J - K)/I.
C18_DegenerateExactly ==
    (Done /\ ValidArgs) =>
        /\ AtLeast(result.I, 0)
        /\ result.I = Num(0) <=> mean \in {Num(1), Num(5)}
        /\ result.I = Num(0) <=> result.E = Num(1)
        /\ mean \notin {Num(1), Num(5)} =>
                /\ Above(result.I, 0)
                /\ result.L = Rat(sJ - sK, 3 * sI)
                /\ Mul(result.L, result.I) = Sub(result.J, result.K)

C18_Witness ==
    /\ Done
    /\ ValidArgs
    /\ mean = Fin(5, 4)
    /\ result.I = Fin(1, 256)
    /\ result.L # Num(0)

\* G <= H <= 3F: the variance can be attained on the scale at this mean
Attainable == sG <= sH /\ sH <= 3 * sF

\* C19: for valid input with I # 0 and G <= H <= 3F, 0 <= L <= 1, with
\* L = 0 exactly at H = G and L = 1 exactly at H = 3F.
C19_RangeWhenAttainable ==
    (Done /\ ValidArgs /\ sI # 0 /\ Attainable) =>
        /\ AtLeast(result.L, 0)
        /\ AtMost(result.L, 1)
        /\ result.L = Num(0) <=> sH = sG
        /\ result.L = Num(1) <=> sH = 3 * sF

C19_Witness ==
    /\ Done
    /\ ValidArgs
    /\ sI # 0
    /\ sH = 3 * sF
    /\ sG > 0
    /\ result.L = Num(1)

(***************************************************************************)
(* Two calls of one caller.                                                *)
(***************************************************************************)
\* the arguments m, v are finite and pass the validation of revision r
ValidCall(r, m, v) ==
    /\ AtLeast(m, 1)
    /\ AtMost(m, 5)
    /\ AtLeast(v, 0)
    /\ r = "part_000" => AtMost(v, 4)

\* x + y = 6, for finite x and y
Reflected(x, y) ==
    /\ IsFinite(x)
    /\ IsFinite(y)
    /\ x.n * y.d + y.n * x.d = 6 * x.d * y.d

\* C11: for valid C and D, evaluate(C, D) and evaluate(6 - C, D) are both
\* valid and have equal E, F, G, H, I, J, K and L.
C11_ReflectionSymmetry ==
    (/\ Done
     /\ prev.rev = rev
     /\ ValidCall(rev, prev.mean, prev.variance)
     /\ Reflected(prev.mean, mean)
     /\ variance = prev.variance) =>
        /\ IsValid(prev.result)
        /\ IsValid(result)
        /\ result.C = mean
        /\ \A f \in NumericFields \ {"C"} : result[f] = prev.result[f]

C11_Witness ==
    /\ Done
    /\ prev.mean = Fin(7, 4)
    /\ mean = Fin(17, 4)
    /\ prev.variance = Num(1)
    /\ variance = Num(1)
    /\ result.E = Fin(7, 4)
    /\ result.L = prev.result.L

\* x <= y, for finite x and y
LeqFin(x, y) == IsFinite(x) /\ IsFinite(y) /\ Sub(y, x).n >= 0

\* C20: for a fixed valid mean and valid variances D1 <= D2,
\* evaluate(mean, D1).L <= evaluate(mean, D2).L.
C20_MonotoneInVariance ==
    (/\ Done
     /\ prev.rev = rev
     /\ prev.mean = mean
     /\ ValidCall(rev, prev.mean, prev.variance)
     /\ ValidCall(rev, mean, variance)
     /\ LeqFin(prev.variance, variance)) =>
        LeqFin(prev.result.L, result.L)

C20_Witness ==
    /\ Done
    /\ prev.mean = Fin(5, 2)
    /\ mean = Fin(5, 2)
    /\ prev.variance = Fin(1, 2)
    /\ variance = Fin(3, 2)
    /\ prev.result.L # result.L
    /\ taken.K = "else"
    /\ LeqFin(prev.result.L, result.L)

(***************************************************************************)
(* Calls that run at the same time.                                        *)
(***************************************************************************)
\* C15: whatever the interleaving of the statements of concurrent calls,
\* the Result of each call is the Result of that call run alone.
C15_ConcurrentCallsIndependent ==
    \A c \in Callers :
        cpc[c] = "done" =>
            cret[c] = calculateConsensus(rev, cargs[c].mean, cargs[c].variance)

C15_Witness ==
    /\ overlapped
    /\ cargs[1] = [mean |-> Num(3), variance |-> Num(1)]
    /\ cargs[2] = [mean |-> Fin(5, 2), variance |-> Fin(1, 2)]
    /\ cpc[1] = "done"
    /\ cpc[2] = "K"
    /\ frame[2].E = Fin(5, 2)
    /\ cret[1].L = Fin(1, 8)

(***************************************************************************)
(* The two revisions of calculateConsensus.                                *)
(***************************************************************************)
\* the same arguments have been passed to both revisions, one after the other
BothRevisions ==
    /\ Done
    /\ prev # NoCall
    /\ prev.rev # rev
    /\ prev.mean = mean
    /\ prev.variance = variance

\* the Result of the revision with the cap, and of the one without
Capped == IF rev = "part_000" THEN result ELSE prev.result
Uncapped == IF rev = "App.js" THEN result ELSE prev.result

\* C21: the two revisions differ only in the variance cap: for every input
\* whose variance is not above 4, valid or not, their Results are equal in
\* C, D, E .. L and in validity; for a mean in [1, 5] and a variance above 4
\* the revision with the cap returns the invalid Result and the other a
\* valid one.
C21_RevisionsDifferInCap ==
    BothRevisions =>
        /\ ~Above(variance, 4) =>
              /\ \A f \in NumericFields : Capped[f] = Uncapped[f]
              /\ IsValid(Capped) <=> IsValid(Uncapped)
              /\ IsInvalid(Capped) <=> IsInvalid(Uncapped)
        /\ (AtLeast(mean, 1) /\ AtMost(mean, 5) /\ Above(variance, 4)) =>
              /\ IsInvalid(Capped)
              /\ IsValid(Uncapped)

C21_Witness ==
    /\ BothRevisions
    /\ rev = "part_000"
    /\ mean = Num(3)
    /\ variance = Fin(17, 4)
    /\ IsInvalid(result)
    /\ prev.result.L = Fin(1537, 1536)

(***************************************************************************)
(* The gauge.                                                              *)
(***************************************************************************)
\* the gauge has rendered
Rendered == percentage # <<>>

\* C22: whatever value the gauge is given (negative, above 1, infinite, NaN,
\* null or undefined included), the pointer is at a percentage in [0, 100];
\* a value v in [0, 1] puts it at exactly 100 * v.
C22_PointerOnTheBar ==
    Rendered =>
        /\ AtLeast(percentage[1], 0)
        /\ AtMost(percentage[1], 100)
        /\ (AtLeast(gvalue, 0) /\ AtMost(gvalue, 1)) =>
              Div(percentage[1], Num(100)) = gvalue

C22_Witness ==
    /\ Rendered
    /\ gvalue = NaN
    /\ percentage = <<Num(0)>>

(***************************************************************************)
(* The calculator page.                                                    *)
(***************************************************************************)
\* the label at the end of the bar the pointer is at
PointerLabel ==
    IF view.gauge.percentage = Num(0) THEN view.gauge.labels[1]
    ELSE IF view.gauge.percentage = Num(100) THEN view.gauge.labels[2]
    ELSE "none"

\* C23 (as claimed): the gauge inverts L: a valid result with L = 0 puts the
\* pointer at the end labelled High Consensus, one with L = 1 at the end
\* labelled High Disagreement, and the position of the pointer is 1 - L.
C23_GaugeInvertsIndex ==
    (IsValid(results) /\ AtLeast(results.L, 0) /\ AtMost(results.L, 1)) =>
        /\ results.L = Num(0) => PointerLabel = "High Consensus"
        /\ results.L = Num(1) => PointerLabel = "High Disagreement"
        /\ view.gauge.percentage = Mul(Sub(Num(1), results.L), Num(100))

\* the handler that ran last left the field it changed empty
FieldCleared ==
    /\ event.handler = "handleInputChange"
    /\ inputs[event.name] = EmptyString

\* C24 (as claimed): after the user clears a field, or makes an entry that
\* is not a number, no error message is displayed.
C24_EmptyEntryNotAnError == FieldCleared => view.error = <<>>

\* the text shows the number x to six places: it reads as a number within
\* half of 10 ** -6 of x
ShowsNumber(text, x) ==
    /\ text # NoIndex
    /\ IsFinite(parseFloat(text))
    /\ LeqFin(Sub(parseFloat(text), x), Fin(1, 2000000))
    /\ LeqFin(Sub(x, parseFloat(text)), Fin(1, 2000000))

\* C25: when the result is invalid the page shows the error message, ---
\* for the index, a gauge given 0, and no detail card even with the details
\* switched on; when the result is valid it shows no error message and the
\* index as a number.
C25_InvalidDisplay ==
    /\ IsInvalid(results) \/ IsValid(results)
    /\ IsInvalid(results) =>
          /\ view.error = <<ErrorMessage(rev)>>
          /\ view.index = NoIndex
          /\ view.gauge.value = Num(0)
          /\ view.gauge.percentage = Num(0)
          /\ view.cards = <<>>
    /\ IsValid(results) =>
          /\ view.error = <<>>
          /\ ShowsNumber(view.index, results.L)

C25_Witness ==
    /\ inputs.C = EmptyString
    /\ showDetails
    /\ IsInvalid(results)
    /\ view.cards = <<>>
    /\ view.index = NoIndex

\* C26: after any sequence of input changes and detail toggles, the result
\* the page holds and displays is calculateConsensus of the current
\* inputs.C and inputs.D; on mount it is the result for (5, 1.5).
C26_NoStaleResult ==
    /\ results = calculateConsensus(rev, inputs.C, inputs.D)
    /\ view.index = IndexText(calculateConsensus(rev, inputs.C, inputs.D))
    /\ view.error = ErrorLine(calculateConsensus(rev, inputs.C, inputs.D))
    /\ event.handler = "mount" =>
          /\ inputs = [C |-> Num(5), D |-> Fin(3, 2)]
          /\ results.E = Num(1)
          /\ results.L = Num(0)

C26_Witness ==
    /\ event.handler = "setShowDetails"
    /\ inputs.C = Num(3)
    /\ inputs.D = Num(1)
    /\ results.L = Fin(1, 8)
    /\ view.index = <<"0", ".", "1", "2", "5", "0", "0", "0">>

\* C27: handleInputChange for the Mean field changes inputs.C only and
\* leaves inputs.D and showDetails as they are, and likewise for the
\* Variance field; the details switch leaves both inputs and the result as
\* they are.
C27_Frame ==
    [][/\ (event'.handler = "handleInputChange" /\ event'.name = "C") =>
            /\ inputs'.D = inputs.D
            /\ showDetails' = showDetails
       /\ (event'.handler = "handleInputChange" /\ event'.name = "D") =>
            /\ inputs'.C = inputs.C
            /\ showDetails' = showDetails
       /\ event'.handler = "setShowDetails" =>
            /\ inputs' = inputs
            /\ results' = results
            /\ showDetails' # showDetails]_vars

C27_Witness ==
    /\ event = [handler |-> "handleInputChange", name |-> "C"]
    /\ inputs.C = Num(3)
    /\ inputs.D = Fin(3, 2)
    /\ showDetails

(***************************************************************************)
(* The research page and the contact page.                                 *)
(***************************************************************************)
\* C28 (as claimed): after a copy, the Copied! indicator stays set until the
\* timer that same copy started fires: a timer started by an earlier copy
\* never clears the indicator a later copy set.
C28_OwnTimerClears == cleared.owner # 0 => cleared.by = cleared.owner

\* the submissions whose timers are pending
PendingChains ==
    {timers[i].id : i \in {j \in 1..Len(timers) :
                              timers[j].callback \in {"success", "idle"}}}

\* the status of the mounted contact page moves along
\* idle -> submitting -> success -> idle
StatusOrder ==
    (activePage = "contact" /\ mounts' = mounts /\ status' # status) =>
        <<status, status'>> \in {<<"idle", "submitting">>,
                                 <<"submitting", "success">>,
                                 <<"success", "idle">>}

\* C29 (as claimed): the status of the contact form only moves idle ->
\* submitting -> success -> idle, in that order: a submit is accepted only
\* in idle, at most one chain of submission timers is pending at any time,
\* and every accepted submit brings the status back to idle once its timers
\* have fired (unless the page is left before).
C29_StatusCycle ==
    /\ [][StatusOrder]_vars
    /\ [](Cardinality(PendingChains) <= 1)
    /\ (status = "submitting") ~> (status = "idle" \/ activePage # "contact")

\* C29, for the mounted page alone: the order of the status, one pending
\* chain at most among the timers the mounted page started, and the return
\* to idle.
C29_MountedPageCycle ==
    /\ [][StatusOrder]_vars
    /\ [](Cardinality({id \in PendingChains :
                          \E i \in 1..Len(timers) :
                              timers[i].id = id /\ Mounted(timers[i])}) <= 1)
    /\ (status = "submitting") ~> (status = "idle" \/ activePage # "contact")

====
